---- MODULE Spec2Model ----
(***************************************************************************)
(* Model of the QR code generator: the interactive script (src/main.py)    *)
(* and the command-line script (src/generate_qr_cli.py).                   *)
(*                                                                         *)
(* A Python string is a sequence of one-character strings, so that strip,  *)
(* split, upper, endswith and slicing are computed as the code computes    *)
(* them.  One run of one script is one behaviour: `entry` names the script *)
(* and `pc` the position of the run in it.  The QR encoder and the imaging *)
(* library are external: rendering yields an image whose edge length       *)
(* follows from the symbol version, or raises; saving succeeds or raises.  *)
(***************************************************************************)
EXTENDS Integers, Sequences, FiniteSets, TLC

VARIABLES
    entry,          \* "interactive" (main.py) or "cli" (generate_qr_cli.py)
    pc,             \* position of the run
    argv,           \* cli: the options given on the command line (None = not given)
    args,           \* cli: the argparse namespace after parse_args()
    data,           \* the text to encode
    theme_choice,   \* main.py: theme_choice, normalised with strip().upper()
    style_choice,   \* main.py: style_choice, normalised with strip()
    theme_key,      \* cli: parse_choice(args.theme)
    style_key,      \* cli: parse_choice(args.style)
    fill_hex,       \* get_custom_colors: foreground hex string
    back_hex,       \* get_custom_colors: background hex string
    theme,          \* the resolved theme dict
    style,          \* the resolved style dict
    logo_path,      \* main.py: logo path, or None
    output_file,    \* the path handed to qr_img.save
    qr_img,         \* the image being composed: its edge length and its layers
    qr_size,        \* generate_styled_qr: qr_img.size[0]
    logo_size,      \* generate_styled_qr: qr_size // 4
    pos,            \* generate_styled_qr: top-left corner of the logo
    disk,           \* the files written by this run
    console,        \* what the run has reported: a sequence of tags
    THEMES,         \* the module-level THEMES dict of the running script
    STYLES          \* the module-level STYLES dict of the running script

vars == <<entry, pc, argv, args, data, theme_choice, style_choice, theme_key,
          style_key, fill_hex, back_hex, theme, style, logo_path, output_file,
          qr_img, qr_size, logo_size, pos, disk, console, THEMES, STYLES>>

-----------------------------------------------------------------------------
(* Bounds of the model *)

MaxKeyLen == 3      \* longest theme/style key string typed or passed
MaxVersion == 2     \* largest QR symbol version the renderer picks in a run
MaxEdge == 2220     \* largest edge length the logo arithmetic is applied to

-----------------------------------------------------------------------------
(* Python values *)

\* None and an unbound local: values that are no string (a string is a
\* sequence of single characters).
None == <<"None">>
Unset == <<"Unset">>
UnsetDict == [unset |-> TRUE]
UnsetInt == 0 - 1
NoImage == [size |-> 0, layers |-> <<>>]

Min(a, b) == IF a < b THEN a ELSE b

Strings(alphabet, n) == UNION {[1..k -> alphabet] : k \in 0..n}

\* str.strip() with no argument strips whitespace
Whitespace == {" ", "\t", "\n", "\r"}

RECURSIVE lstrip(_, _)
lstrip(s, chars) ==
    IF s # <<>> /\ Head(s) \in chars THEN lstrip(Tail(s), chars) ELSE s

RECURSIVE rstrip(_, _)
rstrip(s, chars) ==
    IF s # <<>> /\ s[Len(s)] \in chars
    THEN rstrip(SubSeq(s, 1, Len(s) - 1), chars)
    ELSE s

strip(s, chars) == rstrip(lstrip(s, chars), chars)

LowerLetters == <<"a","b","c","d","e","f","g","h","i","j","k","l","m",
                  "n","o","p","q","r","s","t","u","v","w","x","y","z">>
UpperLetters == <<"A","B","C","D","E","F","G","H","I","J","K","L","M",
                  "N","O","P","Q","R","S","T","U","V","W","X","Y","Z">>

UpperChar(c) ==
    IF \E i \in 1..Len(LowerLetters) : LowerLetters[i] = c
    THEN UpperLetters[CHOOSE i \in 1..Len(LowerLetters) : LowerLetters[i] = c]
    ELSE c

upper(s) == [i \in 1..Len(s) |-> UpperChar(s[i])]

endswith(s, suffix) ==
    /\ Len(s) >= Len(suffix)
    /\ SubSeq(s, Len(s) - Len(suffix) + 1, Len(s)) = suffix

\* s[i:j] for 0 <= i <= j: clipped to the string, never an error
Slice(s, i, j) ==
    IF i + 1 > Min(j, Len(s)) THEN <<>> ELSE SubSeq(s, i + 1, Min(j, Len(s)))

\* s.split(" ")[0]: the text before the first space
RECURSIVE SplitFirst(_)
SplitFirst(s) ==
    IF s = <<>> \/ Head(s) = " " THEN <<>>
    ELSE <<Head(s)>> \o SplitFirst(Tail(s))

\* dict.get(key, default)
DictGet(d, key, default) == IF key \in DOMAIN d THEN d[key] ELSE default

\* dict.get(key): truthiness of the entry, False when the key is missing
Truthy(d, key) == key \in DOMAIN d /\ d[key] = TRUE

PNG == <<".", "p", "n", "g">>
DefaultName == <<"q", "r", "_", "c", "o", "d", "e", ".", "p", "n", "g">>

-----------------------------------------------------------------------------
(* The preset tables *)

MAIN_THEMES ==
    (<<"1">> :> [name |-> "Neon Purple", fill |-> <<127, 0, 255>>, back |-> <<0, 0, 0>>]) @@
    (<<"2">> :> [name |-> "Ocean Blue", fill |-> <<0, 119, 182>>, back |-> <<255, 255, 255>>]) @@
    (<<"3">> :> [name |-> "Sunset", fill |-> <<255, 87, 51>>, back |-> <<25, 25, 25>>]) @@
    (<<"4">> :> [name |-> "Matrix", fill |-> <<0, 255, 65>>, back |-> <<0, 0, 0>>]) @@
    (<<"5">> :> [name |-> "Classic", fill |-> <<0, 0, 0>>, back |-> <<255, 255, 255>>]) @@
    (<<"6">> :> [name |-> "Pink Dream", fill |-> <<255, 20, 147>>, back |-> <<255, 240, 245>>]) @@
    (<<"7">> :> [name |-> "Gradient Ocean", gradient |-> TRUE, center |-> <<0, 191, 255>>,
                 edge |-> <<0, 0, 139>>, back |-> <<255, 255, 255>>]) @@
    (<<"8">> :> [name |-> "Gradient Fire", gradient |-> TRUE, center |-> <<255, 215, 0>>,
                 edge |-> <<255, 0, 0>>, back |-> <<0, 0, 0>>])

MAIN_STYLES ==
    (<<"1">> :> [name |-> "Square (Classic)", drawer |-> "SquareModuleDrawer"]) @@
    (<<"2">> :> [name |-> "Rounded", drawer |-> "RoundedModuleDrawer"]) @@
    (<<"3">> :> [name |-> "Circle", drawer |-> "CircleModuleDrawer"]) @@
    (<<"4">> :> [name |-> "Vertical Bars", drawer |-> "VerticalBarsDrawer"]) @@
    (<<"5">> :> [name |-> "Horizontal Bars", drawer |-> "HorizontalBarsDrawer"]) @@
    (<<"6">> :> [name |-> "Gapped Square", drawer |-> "GappedSquareModuleDrawer"])

CLI_THEMES ==
    (<<"1">> :> [name |-> "Neon Purple", fill |-> <<127, 0, 255>>, back |-> <<0, 0, 0>>]) @@
    (<<"2">> :> [name |-> "Ocean Blue", fill |-> <<0, 119, 182>>, back |-> <<255, 255, 255>>]) @@
    (<<"3">> :> [name |-> "Sunset", fill |-> <<255, 87, 51>>, back |-> <<25, 25, 25>>]) @@
    (<<"4">> :> [name |-> "Matrix", fill |-> <<0, 255, 65>>, back |-> <<0, 0, 0>>]) @@
    (<<"5">> :> [name |-> "Classic", fill |-> <<0, 0, 0>>, back |-> <<255, 255, 255>>]) @@
    (<<"6">> :> [name |-> "Pink Dream", fill |-> <<255, 20, 147>>, back |-> <<255, 240, 245>>]) @@
    (<<"7">> :> [name |-> "Gradient Ocean", gradient |-> TRUE, center |-> <<0, 191, 255>>,
                 edge |-> <<0, 0, 139>>, back |-> <<255, 255, 255>>]) @@
    (<<"8">> :> [name |-> "Gradient Fire", gradient |-> TRUE, center |-> <<255, 215, 0>>,
                 edge |-> <<255, 0, 0>>, back |-> <<0, 0, 0>>])

CLI_STYLES ==
    (<<"1">> :> [name |-> "Square (Classic)", drawer |-> "SquareModuleDrawer"]) @@
    (<<"2">> :> [name |-> "Rounded", drawer |-> "RoundedModuleDrawer"]) @@
    (<<"3">> :> [name |-> "Circle", drawer |-> "CircleModuleDrawer"]) @@
    (<<"4">> :> [name |-> "Vertical Bars", drawer |-> "VerticalBarsDrawer"]) @@
    (<<"5">> :> [name |-> "Horizontal Bars", drawer |-> "HorizontalBarsDrawer"]) @@
    (<<"6">> :> [name |-> "Gapped Square", drawer |-> "GappedSquareModuleDrawer"])

-----------------------------------------------------------------------------
(* Pure functions of the scripts *)

HexDigitsLower == <<"0","1","2","3","4","5","6","7","8","9","a","b","c","d","e","f">>
HexDigitsUpper == <<"0","1","2","3","4","5","6","7","8","9","A","B","C","D","E","F">>

IsHexDigit(c) == \E i \in 1..16 : HexDigitsLower[i] = c \/ HexDigitsUpper[i] = c

HexVal(c) == (CHOOSE i \in 1..16 : HexDigitsLower[i] = c \/ HexDigitsUpper[i] = c) - 1

RECURSIVE HexNumber(_)
HexNumber(digits) ==
    IF digits = <<>> THEN 0
    ELSE 16 * HexNumber(SubSeq(digits, 1, Len(digits) - 1)) + HexVal(digits[Len(digits)])

\* int(s, 16) for a slice s of at most two characters: surrounding whitespace
\* is dropped, one sign is allowed, and what remains must be one or two hex
\* digits (a "0x" prefix or an underscore cannot be valid in two characters).
\* The result is a ValueError (ok = FALSE) or the number.
Int16(s) ==
    LET t == strip(s, Whitespace)
        signed == t # <<>> /\ Head(t) \in {"+", "-"}
        digits == IF signed THEN Tail(t) ELSE t
        good == digits # <<>> /\ \A i \in 1..Len(digits) : IsHexDigit(digits[i])
    IN  IF ~good THEN [ok |-> FALSE, val |-> 0]
        ELSE [ok |-> TRUE,
              val |-> IF signed /\ Head(t) = "-" THEN 0 - HexNumber(digits)
                      ELSE HexNumber(digits)]

\* hex_to_rgb(hex_color): ValueError (ok = FALSE) or the tuple
hex_to_rgb(hex_color) ==
    LET h == lstrip(hex_color, {"#"})
        r == Int16(Slice(h, 0, 2))
        g == Int16(Slice(h, 2, 4))
        b == Int16(Slice(h, 4, 6))
    IN  IF r.ok /\ g.ok /\ b.ok
        THEN [ok |-> TRUE, val |-> <<r.val, g.val, b.val>>]
        ELSE [ok |-> FALSE, val |-> <<>>]

\* get_custom_colors storing the background under another name
CustomTheme_NoBack(fill, back) == [name |-> "Custom", fill |-> fill, background |-> back]

\* the dict get_custom_colors returns
CustomTheme(fill, back) == [name |-> "Custom", fill |-> fill, back |-> back]

\* parse_choice keeping the whole argument
parse_choice_whole(choice_str) == strip(choice_str, Whitespace)

\* parse_choice(choice_str)
parse_choice(choice_str) == strip(SplitFirst(choice_str), Whitespace)

\* the fields the colour-mask construction reads from a theme
MaskFields(t) ==
    IF Truthy(t, "gradient") THEN {"back", "center", "edge"} ELSE {"back", "fill"}

\* QRCode(version=1, box_size=12, border=4) with make(fit=True): a symbol of
\* version v has 17 + 4v modules per side; the image edge is box_size pixels
\* per module, border modules on each side included.
box_size == 12
border == 4
Modules(version) == 17 + 4 * version
ImageSize(version) == box_size * (Modules(version) + 2 * border)

\* a logo of a third of the edge
LogoSize_Third(size) == size \div 3

\* the backing moved right and down instead of left and up
BgPos_Plus(p) == <<p[1] + 10, p[2] + 10>>

\* logo placement arithmetic of generate_styled_qr
LogoSize(size) == size \div 4
Pos(size, lsize) == <<(size - lsize) \div 2, (size - lsize) \div 2>>
BgSize(lsize) == lsize + 20
BgPos(p) == <<p[1] - 10, p[2] - 10>>

BaseImage(size) == [size |-> size, layers |-> <<[what |-> "qr", at |-> <<0, 0>>, edge |-> size]>>]
Paste(img, what, at, edge) ==
    [img EXCEPT !.layers = Append(@, [what |-> what, at |-> at, edge |-> edge])]

-----------------------------------------------------------------------------
(* The environment: what is typed, passed and found on disk *)

KeySingles == {"1", "2", "3", "4", "5", "6", "7", "8", "9", "C", "c", " ", "x", "-"}
KeyChars == {"1", " ", "x"}
KeyInputs == {<<c>> : c \in KeySingles} \cup Strings(KeyChars, MaxKeyLen)

DataInputs == {<<>>, <<" ">>, <<"a">>, <<" ", "a">>}

HexInputs ==
    { <<>>,
      <<"#", "7", "F", "0", "0", "F", "F">>,
      <<"0", "0", "0", "0", "0", "0">>,
      <<"1", "2", "3", "4", "5">>,
      <<"#", "1", "2", "3", "4", "5", "6", "7">>,
      <<"1", "2", "3", "4">>,
      <<"z", "z", "z", "z", "z", "z">> }

\* the files a logo path can name: a loadable image, and a file that is no image
FileSystem == (<<"g">> :> "image") @@ (<<"c">> :> "corrupt")
Quotes == {<<>>, <<"\"">>, <<"'">>}
LogoInputs ==
    {<<>>} \cup {q \o f \o q : q \in Quotes, f \in {<<>>, <<"g">>, <<"c">>, <<"m">>}}

NameInputs ==
    { <<>>, <<"a">>, <<"a", ".", "p", "n", "g">>, <<"a", ".", "j", "p", "g">>,
      <<" ", "a", ".", "P", "N", "G">> }

exists(path) == path \in DOMAIN FileSystem

CliDataArgs == {None, <<>>, <<"a">>}
CliNameArgs == {None, <<"a", ".", "p", "n", "g">>, <<"a", ".", "j", "p", "g">>}

NoArgv == [data |-> None, theme |-> None, style |-> None, output |-> None]

-----------------------------------------------------------------------------
(* Initial state: a script has been started and nothing has run yet *)

Locals ==
    /\ pc = "start"
    /\ args = UnsetDict
    /\ data = Unset
    /\ theme_choice = Unset
    /\ style_choice = Unset
    /\ theme_key = Unset
    /\ style_key = Unset
    /\ fill_hex = Unset
    /\ back_hex = Unset
    /\ theme = UnsetDict
    /\ style = UnsetDict
    /\ logo_path = Unset
    /\ output_file = Unset
    /\ qr_img = NoImage
    /\ qr_size = UnsetInt
    /\ logo_size = UnsetInt
    /\ pos = <<UnsetInt, UnsetInt>>
    /\ disk = {}
    /\ console = <<>>

Init ==
    /\ Locals
    /\ \/ /\ entry = "interactive"
          /\ argv = NoArgv
          /\ THEMES = MAIN_THEMES
          /\ STYLES = MAIN_STYLES
       \/ /\ entry = "cli"
          /\ argv \in [data : CliDataArgs, theme : KeyInputs \cup {None},
                       style : KeyInputs \cup {None}, output : CliNameArgs]
          /\ THEMES = CLI_THEMES
          /\ STYLES = CLI_STYLES

Say(tag) == console' = Append(console, tag)

-----------------------------------------------------------------------------
(* src/main.py: the interactive script *)

\* main, step 1: the data; an empty line ends the run
main_ReadData ==
    /\ entry = "interactive" /\ pc = "start"
    /\ \E line \in DataInputs :
          /\ data' = strip(line, Whitespace)
          /\ IF data' = <<>>
             THEN /\ console' = <<"header", "no_input">>
                  /\ pc' = "returned"
             ELSE /\ console' = <<"header">>
                  /\ pc' = "theme"
    /\ UNCHANGED <<entry, argv, args, theme_choice, style_choice, theme_key,
                   style_key, fill_hex, back_hex, theme, style, logo_path,
                   output_file, qr_img, qr_size, logo_size, pos, disk, THEMES,
                   STYLES>>

\* main, step 2: the theme key; "C" goes on to get_custom_colors
main_ReadTheme ==
    /\ entry = "interactive" /\ pc = "theme"
    /\ \E line \in KeyInputs :
          /\ theme_choice' = upper(strip(line, Whitespace))
          /\ IF theme_choice' = <<"C">>
             THEN /\ theme' = theme
                  /\ pc' = "custom"
             ELSE /\ theme' = DictGet(THEMES, theme_choice', THEMES[<<"1">>])
                  /\ pc' = "style"
    /\ UNCHANGED <<entry, argv, args, data, style_choice, theme_key, style_key,
                   fill_hex, back_hex, style, logo_path, output_file, qr_img,
                   qr_size, logo_size, pos, disk, console, THEMES, STYLES>>

\* get_custom_colors, called from main: a ValueError of hex_to_rgb is not
\* caught anywhere and ends the run
get_custom_colors ==
    /\ entry = "interactive" /\ pc = "custom"
    /\ \E fill_line \in HexInputs, back_line \in HexInputs :
          /\ fill_hex' = IF strip(fill_line, Whitespace) = <<>>
                         THEN <<"#", "0", "0", "0", "0", "0", "0">>
                         ELSE strip(fill_line, Whitespace)
          /\ back_hex' = IF strip(back_line, Whitespace) = <<>>
                         THEN <<"#", "F", "F", "F", "F", "F", "F">>
                         ELSE strip(back_line, Whitespace)
          /\ IF hex_to_rgb(fill_hex').ok /\ hex_to_rgb(back_hex').ok
             THEN /\ theme' = CustomTheme(hex_to_rgb(fill_hex').val,
                                          hex_to_rgb(back_hex').val)
                  /\ console' = console
                  /\ pc' = "style"
             ELSE /\ theme' = theme
                  /\ Say("ValueError")
                  /\ pc' = "error"
    /\ UNCHANGED <<entry, argv, args, data, theme_choice, style_choice,
                   theme_key, style_key, style, logo_path, output_file, qr_img,
                   qr_size, logo_size, pos, disk, THEMES, STYLES>>

\* main, step 3: the style key
main_ReadStyle ==
    /\ entry = "interactive" /\ pc = "style"
    /\ \E line \in KeyInputs :
          /\ style_choice' = strip(line, Whitespace)
          /\ style' = DictGet(STYLES, style_choice', STYLES[<<"1">>])
    /\ pc' = "logo"
    /\ UNCHANGED <<entry, argv, args, data, theme_choice, theme_key, style_key,
                   fill_hex, back_hex, theme, logo_path, output_file, qr_img,
                   qr_size, logo_size, pos, disk, console, THEMES, STYLES>>

\* main, step 4: the optional logo path, quotes stripped
main_ReadLogo ==
    /\ entry = "interactive" /\ pc = "logo"
    /\ \E line \in LogoInputs :
          logo_path' = IF strip(line, Whitespace) # <<>>
                       THEN strip(strip(strip(line, Whitespace), {"\""}), {"'"})
                       ELSE None
    /\ pc' = "filename"
    /\ UNCHANGED <<entry, argv, args, data, theme_choice, style_choice,
                   theme_key, style_key, fill_hex, back_hex, theme, style,
                   output_file, qr_img, qr_size, logo_size, pos, disk, console,
                   THEMES, STYLES>>

\* main, step 5: the output filename
main_ReadFilename ==
    /\ entry = "interactive" /\ pc = "filename"
    /\ \E line \in NameInputs :
          output_file' = IF strip(line, Whitespace) = <<>> THEN DefaultName
                         ELSE IF ~endswith(strip(line, Whitespace), PNG)
                              THEN strip(line, Whitespace) \o PNG
                              ELSE strip(line, Whitespace)
    /\ pc' = "render"
    /\ UNCHANGED <<entry, argv, args, data, theme_choice, style_choice,
                   theme_key, style_key, fill_hex, back_hex, theme, style,
                   logo_path, qr_img, qr_size, logo_size, pos, disk, console,
                   THEMES, STYLES>>

\* generate_styled_qr up to the rendered image.  Reading a field the theme
\* lacks is a KeyError; the encoder picks the version that fits the data or
\* raises when no version does (never for empty data).
Render(text, next) ==
    IF ~(MaskFields(theme) \subseteq DOMAIN theme)
    THEN /\ Say("KeyError")
         /\ pc' = "error"
         /\ qr_img' = qr_img
    ELSE \/ \E version \in 1..MaxVersion :
               /\ qr_img' = BaseImage(ImageSize(version))
               /\ console' = console
               /\ pc' = next
         \/ /\ text # <<>>
            /\ Say("DataOverflowError")
            /\ pc' = "error"
            /\ qr_img' = qr_img

main_Render ==
    /\ entry = "interactive" /\ pc = "render"
    /\ Render(data, "load_logo")
    /\ UNCHANGED <<entry, argv, args, data, theme_choice, style_choice,
                   theme_key, style_key, fill_hex, back_hex, theme, style,
                   logo_path, output_file, qr_size, logo_size, pos, disk,
                   THEMES, STYLES>>

\* generate_styled_qr, "if logo_path and os.path.exists(logo_path)" and the
\* first line of the try block: a path that is None, empty or names nothing
\* skips the block; a file that is no image raises inside it, which is
\* caught and reported.
main_LoadLogo ==
    /\ entry = "interactive" /\ pc = "load_logo"
    /\ IF logo_path # None /\ logo_path # <<>> /\ exists(logo_path)
       THEN IF FileSystem[logo_path] = "image"
            THEN /\ console' = console
                 /\ pc' = "measure"
            ELSE /\ Say("logo_warning")
                 /\ pc' = "save"
       ELSE /\ console' = console
            /\ pc' = "save"
    /\ UNCHANGED <<entry, argv, args, data, theme_choice, style_choice,
                   theme_key, style_key, fill_hex, back_hex, theme, style,
                   logo_path, output_file, qr_img, qr_size, logo_size, pos,
                   disk, THEMES, STYLES>>

\* generate_styled_qr: qr_size, logo_size, the resize and pos.  Resizing to
\* an empty square is left to the imaging library: it goes through or it
\* raises, which is caught and reported.
main_Measure ==
    /\ entry = "interactive" /\ pc = "measure"
    /\ qr_size' = qr_img.size
    /\ logo_size' = LogoSize(qr_size')
    /\ \/ /\ pos' = Pos(qr_size', logo_size')
          /\ console' = console
          /\ pc' = "paste_bg"
       \/ /\ logo_size' = 0
          /\ pos' = pos
          /\ Say("logo_warning")
          /\ pc' = "save"
    /\ UNCHANGED <<entry, argv, args, data, theme_choice, style_choice,
                   theme_key, style_key, fill_hex, back_hex, theme, style,
                   logo_path, output_file, qr_img, disk, THEMES, STYLES>>

\* the two pastes in the other order: the logo first, the backing over it
main_PasteBg_LogoFirst ==
    /\ entry = "interactive" /\ pc = "paste_bg"
    /\ qr_img' = Paste(Paste(qr_img, "logo", pos, logo_size),
                       "bg", BgPos(pos), BgSize(logo_size))
    /\ Say("logo_added")
    /\ pc' = "save"
    /\ UNCHANGED <<entry, argv, args, data, theme_choice, style_choice,
                   theme_key, style_key, fill_hex, back_hex, theme, style,
                   logo_path, output_file, qr_size, logo_size, pos, disk,
                   THEMES, STYLES>>

\* generate_styled_qr: the white backing square is pasted
main_PasteBg ==
    /\ entry = "interactive" /\ pc = "paste_bg"
    /\ qr_img' = Paste(qr_img, "bg", BgPos(pos), BgSize(logo_size))
    /\ pc' = "paste_logo"
    /\ UNCHANGED <<entry, argv, args, data, theme_choice, style_choice,
                   theme_key, style_key, fill_hex, back_hex, theme, style,
                   logo_path, output_file, qr_size, logo_size, pos, disk,
                   console, THEMES, STYLES>>

\* generate_styled_qr: the logo is pasted with itself as mask
main_PasteLogo ==
    /\ entry = "interactive" /\ pc = "paste_logo"
    /\ qr_img' = Paste(qr_img, "logo", pos, logo_size)
    /\ Say("logo_added")
    /\ pc' = "save"
    /\ UNCHANGED <<entry, argv, args, data, theme_choice, style_choice,
                   theme_key, style_key, fill_hex, back_hex, theme, style,
                   logo_path, output_file, qr_size, logo_size, pos, disk,
                   THEMES, STYLES>>

\* qr_img.save(output_file): the file is written, or the write raises
Save ==
    \/ /\ disk' = {[path |-> output_file, image |-> qr_img]}
       /\ console' = console
       /\ pc' = "finish"
    \/ /\ disk' = disk
       /\ Say("OSError")
       /\ pc' = "error"

main_Save ==
    /\ entry = "interactive" /\ pc = "save"
    /\ Save
    /\ UNCHANGED <<entry, argv, args, data, theme_choice, style_choice,
                   theme_key, style_key, fill_hex, back_hex, theme, style,
                   logo_path, output_file, qr_img, qr_size, logo_size, pos,
                   THEMES, STYLES>>

\* main: the success report
main_Finish ==
    /\ entry = "interactive" /\ pc = "finish"
    /\ Say("success")
    /\ pc' = "done"
    /\ UNCHANGED <<entry, argv, args, data, theme_choice, style_choice,
                   theme_key, style_key, fill_hex, back_hex, theme, style,
                   logo_path, output_file, qr_img, qr_size, logo_size, pos,
                   disk, THEMES, STYLES>>

-----------------------------------------------------------------------------
(* src/generate_qr_cli.py: the command-line script *)

\* main: parser.parse_args(); --data is required, the others have defaults
cli_ParseArgs ==
    /\ entry = "cli" /\ pc = "start"
    /\ IF argv.data = None
       THEN /\ args' = args
            /\ Say("usage_error")
            /\ pc' = "usage"
       ELSE /\ args' = [data |-> argv.data,
                        theme |-> IF argv.theme = None THEN <<"5">> ELSE argv.theme,
                        style |-> IF argv.style = None THEN <<"1">> ELSE argv.style,
                        output |-> IF argv.output = None THEN DefaultName
                                   ELSE argv.output]
            /\ console' = console
            /\ pc' = "resolve"
    /\ UNCHANGED <<entry, argv, data, theme_choice, style_choice, theme_key,
                   style_key, fill_hex, back_hex, theme, style, logo_path,
                   output_file, qr_img, qr_size, logo_size, pos, disk, THEMES,
                   STYLES>>

\* main: the keys are parsed and looked up, the summary is printed
cli_Resolve ==
    /\ entry = "cli" /\ pc = "resolve"
    /\ theme_key' = parse_choice(args.theme)
    /\ style_key' = parse_choice(args.style)
    /\ theme' = DictGet(THEMES, theme_key', THEMES[<<"5">>])
    /\ style' = DictGet(STYLES, style_key', STYLES[<<"1">>])
    /\ Say("summary")
    /\ pc' = "render"
    /\ UNCHANGED <<entry, argv, args, data, theme_choice, style_choice,
                   fill_hex, back_hex, logo_path, output_file, qr_img, qr_size,
                   logo_size, pos, disk, THEMES, STYLES>>

\* main calls generate_styled_qr(args.data, theme, drawer, args.output)
cli_Render ==
    /\ entry = "cli" /\ pc = "render"
    /\ data' = args.data
    /\ output_file' = args.output
    /\ Render(args.data, "save")
    /\ UNCHANGED <<entry, argv, args, theme_choice, style_choice, theme_key,
                   style_key, fill_hex, back_hex, theme, style, logo_path,
                   qr_size, logo_size, pos, disk, THEMES, STYLES>>

\* generate_styled_qr: qr_img.save(output_file)
cli_Save ==
    /\ entry = "cli" /\ pc = "save"
    /\ Save
    /\ UNCHANGED <<entry, argv, args, data, theme_choice, style_choice,
                   theme_key, style_key, fill_hex, back_hex, theme, style,
                   logo_path, output_file, qr_img, qr_size, logo_size, pos,
                   THEMES, STYLES>>

\* main: the success report
cli_Finish ==
    /\ entry = "cli" /\ pc = "finish"
    /\ Say("success")
    /\ pc' = "done"
    /\ UNCHANGED <<entry, argv, args, data, theme_choice, style_choice,
                   theme_key, style_key, fill_hex, back_hex, theme, style,
                   logo_path, output_file, qr_img, qr_size, logo_size, pos,
                   disk, THEMES, STYLES>>

-----------------------------------------------------------------------------
(* Specifications *)

Next ==
    \/ main_ReadData
    \/ main_ReadTheme
    \/ get_custom_colors
    \/ main_ReadStyle
    \/ main_ReadLogo
    \/ main_ReadFilename
    \/ main_Render
    \/ main_LoadLogo
    \/ main_Measure
    \/ main_PasteBg
    \/ main_PasteLogo
    \/ main_Save
    \/ main_Finish
    \/ cli_ParseArgs
    \/ cli_Resolve
    \/ cli_Render
    \/ cli_Save
    \/ cli_Finish

Spec == Init /\ [][Next]_vars

\* The logo placement of generate_styled_qr as a function of the edge length:
\* the run stands before the measuring step with a base image of any edge
\* length up to MaxEdge, and the compositing steps are applied to it.
InitLogo ==
    /\ entry = "interactive"
    /\ pc = "measure"
    /\ argv = NoArgv
    /\ args = UnsetDict
    /\ data = <<"a">>
    /\ theme_choice = <<"5">>
    /\ style_choice = <<"1">>
    /\ theme_key = Unset
    /\ style_key = Unset
    /\ fill_hex = Unset
    /\ back_hex = Unset
    /\ THEMES = MAIN_THEMES
    /\ STYLES = MAIN_STYLES
    /\ theme = MAIN_THEMES[<<"5">>]
    /\ style = MAIN_STYLES[<<"1">>]
    /\ logo_path = <<"g">>
    /\ output_file = DefaultName
    /\ \E size \in 0..MaxEdge : qr_img = BaseImage(size)
    /\ qr_size = UnsetInt
    /\ logo_size = UnsetInt
    /\ pos = <<UnsetInt, UnsetInt>>
    /\ disk = {}
    /\ console = <<"header">>

NextLogo ==
    \/ main_Measure
    \/ main_PasteBg
    \/ main_PasteLogo

SpecLogo == InitLogo /\ [][NextLogo]_vars

-----------------------------------------------------------------------------
(* Properties *)

ThemeKeys == {<<"1">>, <<"2">>, <<"3">>, <<"4">>, <<"5">>, <<"6">>, <<"7">>, <<"8">>}
StyleKeys == {<<"1">>, <<"2">>, <<"3">>, <<"4">>, <<"5">>, <<"6">>}

\* the documented defaults
Classic == [name |-> "Classic", fill |-> <<0, 0, 0>>, back |-> <<255, 255, 255>>]
Square == [name |-> "Square (Classic)", drawer |-> "SquareModuleDrawer"]

Said(tag) == \E i \in 1..Len(console) : console[i] = tag
Kinds(img) == [i \in 1..Len(img.layers) |-> img.layers[i].what]

\* the key each script looks up
ThemeKeyUsed == IF entry = "cli" THEN theme_key ELSE theme_choice
StyleKeyUsed == IF entry = "cli" THEN style_key ELSE style_choice

\* C1: in both scripts every theme key that is not one of "1".."8" resolves
\* to Classic (preset "5"), every style key that is not one of "1".."6"
\* resolves to Square (preset "1"), and resolving a key never raises.
C1_UnknownKeyFallsBackToDefault ==
    /\ (theme # UnsetDict /\ ThemeKeyUsed \notin ThemeKeys) => theme = Classic
    /\ (style # UnsetDict /\ StyleKeyUsed \notin StyleKeys) => style = Square
    /\ (ThemeKeyUsed # Unset /\ style = UnsetDict) => pc # "error"

\* s is the key k alone, or k followed by a space and any text
KeyThenText(s, k) ==
    \/ s = k
    \/ /\ Len(s) > Len(k)
       /\ SubSeq(s, 1, Len(k)) = k
       /\ s[Len(k) + 1] = " "

\* C2: a recognized theme key "1".."8" and style key "1".."6" resolves to
\* exactly the preset stored under it, never to the fallback; in the cli
\* also when the argument is the key followed by a space and text.
C2_RecognizedKeyResolvesExactly ==
    /\ \A k \in ThemeKeys :
          /\ (entry = "interactive" /\ theme_choice = k /\ theme # UnsetDict)
                => /\ theme = MAIN_THEMES[k]
                   /\ (k # <<"1">> => theme # MAIN_THEMES[<<"1">>])
          /\ (entry = "cli" /\ theme # UnsetDict /\ KeyThenText(args.theme, k))
                => /\ theme = CLI_THEMES[k]
                   /\ (k # <<"5">> => theme # CLI_THEMES[<<"5">>])
    /\ \A k \in StyleKeys :
          /\ (entry = "interactive" /\ style_choice = k /\ style # UnsetDict)
                => /\ style = MAIN_STYLES[k]
                   /\ (k # <<"1">> => style # MAIN_STYLES[<<"1">>])
          /\ (entry = "cli" /\ style # UnsetDict /\ KeyThenText(args.style, k))
                => /\ style = CLI_STYLES[k]
                   /\ (k # <<"1">> => style # CLI_STYLES[<<"1">>])
    /\ (theme # UnsetDict /\ ThemeKeyUsed = <<"2">>) => theme.name = "Ocean Blue"
    /\ (style # UnsetDict /\ StyleKeyUsed = <<"3">>) => style.drawer = "CircleModuleDrawer"

\* a cli run given "1 x" as theme and "2 x" as style has ended with the
\* presets "1" and "2"
C2_Witness ==
    /\ entry = "cli" /\ pc = "done"
    /\ args.theme = <<"1", " ", "x">>
    /\ args.style = <<"2">>
    /\ theme.name = "Neon Purple"
    /\ style.name = "Rounded"

\* an optional leading '#', then exactly six hexadecimal digits
WellFormedHex(s) ==
    LET h == IF s # <<>> /\ Head(s) = "#" THEN Tail(s) ELSE s
    IN  Len(h) = 6 /\ \A i \in 1..6 : IsHexDigit(h[i])

\* C3: every malformed hex colour (wrong length, a character that is no hex
\* digit) raises in hex_to_rgb, and the run ends before anything is rendered
\* or written.
C3_MalformedHexIsFatal ==
    (fill_hex # Unset /\ (~WellFormedHex(fill_hex) \/ ~WellFormedHex(back_hex)))
        => /\ pc = "error"
           /\ qr_img = NoImage
           /\ disk = {}

\* floor division, stated without \div
IsQuotient(q, n, d) == d * q <= n /\ n < d * q + d

\* C4: the logo edge is N div 4, the offset on both axes is (N - N div 4)
\* div 2, the backing square has edge (N div 4) + 20 and its corner at
\* (offset - 10, offset - 10); for N = 400: 100, 150, (140, 140), 120.
C4_LogoPlacement ==
    /\ pc \in {"paste_bg", "paste_logo"}
          => /\ qr_size = qr_img.size
             /\ IsQuotient(logo_size, qr_size, 4)
             /\ pos[1] = pos[2]
             /\ IsQuotient(pos[1], qr_size - logo_size, 2)
    /\ Len(qr_img.layers) >= 2
          => /\ qr_img.layers[2].what = "bg"
             /\ qr_img.layers[2].edge = logo_size + 20
             /\ qr_img.layers[2].at = <<pos[1] - 10, pos[1] - 10>>
             /\ IsQuotient(logo_size, qr_img.size, 4)
             /\ IsQuotient(pos[1], qr_img.size - logo_size, 2)
    /\ Len(qr_img.layers) >= 3
          => /\ qr_img.layers[3].what = "logo"
             /\ qr_img.layers[3].edge = logo_size
             /\ qr_img.layers[3].at = pos
    /\ (qr_img.size = 400 /\ Len(qr_img.layers) >= 2)
          => /\ logo_size = 100
             /\ pos = <<150, 150>>
             /\ qr_img.layers[2].at = <<140, 140>>
             /\ qr_img.layers[2].edge = 120

\* an image of edge 400 carries the backing square and the logo
C4_Witness ==
    /\ qr_img.size = 400
    /\ Kinds(qr_img) = <<"qr", "bg", "logo">>

\* a logo path was given and names no loadable image
LogoUnusable ==
    /\ logo_path \notin {Unset, None, <<>>}
    /\ ~exists(logo_path) \/ FileSystem[logo_path] # "image"

\* C5: when a logo path is given and the logo cannot be used, a warning is
\* reported, the image handed to the save step is the base QR image, and the
\* file written holds it.
C5_UnusableLogoWarnsAndSavesBase ==
    (pc \in {"save", "finish", "done"} /\ LogoUnusable)
        => /\ Said("logo_warning")
           /\ Kinds(qr_img) = <<"qr">>
           /\ \A f \in disk : Kinds(f.image) = <<"qr">>
           /\ pc \in {"finish", "done"} => disk # {}

\* C6: nothing is rendered or written for empty data: the text handed to
\* generate_styled_qr is never empty, and a run given empty data is reported
\* and ends.
C6_NoRenderForEmptyData ==
    /\ (qr_img # NoImage \/ disk # {}) => data \notin {Unset, <<>>}
    /\ (data = <<>> /\ pc # "start") => pc \in {"returned", "usage", "error"}

\* C7: the path handed to the save step ends with ".png".
C7_OutputEndsWithPng ==
    /\ pc \in {"save", "finish", "done"} => endswith(output_file, PNG)
    /\ \A f \in disk : endswith(f.path, PNG)

\* solid: a fill colour and no gradient flag; gradient: the flag with center
\* and edge colours and no fill; a background colour in both
ExactlyOneMode(t) ==
    /\ "back" \in DOMAIN t
    /\ \/ /\ "fill" \in DOMAIN t
          /\ "gradient" \notin DOMAIN t
       \/ /\ "gradient" \in DOMAIN t /\ t.gradient = TRUE
          /\ {"center", "edge"} \subseteq DOMAIN t
          /\ "fill" \notin DOMAIN t

\* C8: each of the 8 themes of either script and every theme built by
\* get_custom_colors is solid or gradient, never both or neither, and has a
\* background; the colour mask never reads a missing field; the tables stay
\* as they were defined.
C8_ThemesSolidOrGradient ==
    /\ THEMES = (IF entry = "cli" THEN CLI_THEMES ELSE MAIN_THEMES)
    /\ STYLES = (IF entry = "cli" THEN CLI_STYLES ELSE MAIN_STYLES)
    /\ DOMAIN THEMES = ThemeKeys
    /\ \A k \in ThemeKeys : ExactlyOneMode(MAIN_THEMES[k]) /\ ExactlyOneMode(CLI_THEMES[k])
    /\ theme # UnsetDict => ExactlyOneMode(theme)
    /\ ~Said("KeyError")

\* a run with custom colours has rendered and finished
C8_Witness ==
    /\ pc = "done"
    /\ theme_choice = <<"C">>
    /\ theme.name = "Custom"
    /\ disk # {}

\* C9: the backing square is pasted first, the logo second, and the file is
\* written only after both: the logo is never pasted before the backing and
\* no file is written between the two pastes.
C9_BackingThenLogoThenSave ==
    /\ Kinds(qr_img) \in {<<>>, <<"qr">>, <<"qr", "bg">>, <<"qr", "bg", "logo">>}
    /\ \A f \in disk : Kinds(f.image) \in {<<"qr">>, <<"qr", "bg", "logo">>}
    /\ disk # {} => pc \in {"finish", "done"}
    /\ pc \in {"paste_bg", "paste_logo"} => disk = {}

\* a file holding the QR image, the backing and the logo has been written
C9_Witness ==
    \E f \in disk : Kinds(f.image) = <<"qr", "bg", "logo">>

\* an edge length the renderer can produce: box_size * (modules + 2 * border)
\* with at least 21 modules
Renderable(size) ==
    \E modules \in 21..size : size = box_size * (modules + 2 * border)

\* C10: for every edge length the renderer can produce the backing square
\* lies inside the image, the logo lies inside the backing square 10 pixels
\* from its top and left, and the backing covers less than 30% of the image.
C10_BackingInsideImage ==
    (Renderable(qr_img.size) /\ Len(qr_img.layers) >= 2)
        => LET N == qr_img.size
               bg == qr_img.layers[2]
           IN  /\ N >= 348
               /\ \A axis \in 1..2 :
                     /\ 0 <= bg.at[axis]
                     /\ bg.at[axis] + bg.edge <= N
                     /\ pos[axis] = bg.at[axis] + 10
                     /\ pos[axis] + logo_size <= bg.at[axis] + bg.edge
               /\ Len(qr_img.layers) >= 3 =>
                     /\ qr_img.layers[3].at = pos
                     /\ qr_img.layers[3].edge = logo_size
               /\ 10 * bg.edge * bg.edge < 3 * N * N

\* the smallest image the renderer produces carries the backing and the logo
C10_Witness ==
    /\ qr_img.size = 348
    /\ Renderable(qr_img.size)
    /\ Kinds(qr_img) = <<"qr", "bg", "logo">>

====
